---------------------------- MODULE Spec2Model ----------------------------
(***************************************************************************)
(* Model of vectormath2d/src/vectormath2d.cpp:                             *)
(*                                                                         *)
(*   std::string dot2d(int x1, int y1, int x2, int y2) {                   *)
(*       int result = x1 * x2 + y1 * y2;                                   *)
(*       spdlog::info("Computed 2D dot product: {}", result);              *)
(*       return fmt::format("({},{})·({},{}) = {}", x1, y1, x2, y2,        *)
(*                          result);                                       *)
(*   }                                                                     *)
(*                                                                         *)
(* int is the 32-bit two's complement type.  TLC's own integers are 32-bit *)
(* and fail on overflow, so the exact (mathematical) products and sums are *)
(* carried in a wide representation: six limbs of 12 bits, little-endian,  *)
(* the top limb signed.  std::string values are sequences of characters;   *)
(* the two UTF-8 bytes of the middle dot are the elements "0xC2", "0xB7".  *)
(***************************************************************************)
EXTENDS Integers, Sequences, FiniteSets, TLC

VARIABLES build, pc, x1, y1, x2, y2, result, log, returned

vars == <<build, pc, x1, y1, x2, y2, result, log, returned>>

-----------------------------------------------------------------------------
(* Bounds and input sets                                                   *)

\* Longest sequence of calls explored by Spec.
MaxCalls == 3

\* The type int of dot2d's parameters and of result.
INT_MAX == 2147483647
INT_MIN == -2147483647 - 1

\* Arguments explored for a single call: the ends of int, both sides of the
\* largest magnitude whose products cannot overflow, and small values.
IntVals == {INT_MIN, -65536, -32768, -32767, -1, 0, 1, 32767, 65536, INT_MAX}

\* Argument lists explored for sequences of calls: plain ones, two with the
\* same dot product, and ones that overflow in a product or in the sum.
SeqArgs == {<<1, 2, 3, 4>>, <<3, 4, 1, 2>>, <<0, 0, 0, 0>>,
            <<-3, 65536, 65536, -3>>, <<-32767, 1, 65536, -1>>,
            <<65536, 0, 65536, 0>>, <<INT_MIN, 0, -1, 0>>,
            <<INT_MAX, 1, 1, 1>>}

\* Signed overflow in line 7 is undefined behaviour.  A build either wraps
\* (two's complement imul/add, -fwrapv) or traps (-ftrapv, UBSan); the build
\* is fixed for the life of the process.
Builds == {"wrap", "trap"}

-----------------------------------------------------------------------------
(* Exact integer arithmetic on wide values                                 *)

LimbBase == 2^12

RECURSIVE Carry(_, _, _)
\* Carry propagation from limb i upward; the top limb keeps the sign.
Carry(w, i, c) ==
    IF i = Len(w)
    THEN [w EXCEPT ![i] = w[i] + c]
    ELSE Carry([w EXCEPT ![i] = (w[i] + c) % LimbBase], i + 1,
               (w[i] + c) \div LimbBase)

Normalize(w) == Carry(w, 1, 0)

\* The wide value of an int.
ToWide(x) == Normalize(<<x, 0, 0, 0, 0, 0>>)

\* An int as three limbs (the third signed), for schoolbook multiplication.
Limbs3(x) == <<x % LimbBase, (x \div LimbBase) % LimbBase,
               x \div (LimbBase * LimbBase)>>

\* The mathematical product of two ints.
WMul(a, b) ==
    LET p == Limbs3(a)
        q == Limbs3(b)
    IN  Normalize(<<p[1] * q[1],
                    p[1] * q[2] + p[2] * q[1],
                    p[1] * q[3] + p[2] * q[2] + p[3] * q[1],
                    p[2] * q[3] + p[3] * q[2],
                    p[3] * q[3],
                    0>>)

\* The mathematical sum of two wide values.
WAdd(u, v) == Normalize([i \in 1..6 |-> u[i] + v[i]])

RECURSIVE WLeqFrom(_, _, _)
WLeqFrom(u, v, i) ==
    IF i = 0 THEN TRUE
    ELSE IF u[i] # v[i] THEN u[i] < v[i]
    ELSE WLeqFrom(u, v, i - 1)

\* u <= v on wide values.
WLeq(u, v) == WLeqFrom(u, v, 6)

\* Whether a wide value is representable in int.
FitsInt(w) == WLeq(ToWide(INT_MIN), w) /\ WLeq(w, ToWide(INT_MAX))

\* The low 32 bits of a wide value read as a two's complement int.
Wrap32(w) ==
    LET t8 == w[3] % 256
        t  == IF t8 >= 128 THEN t8 - 256 ELSE t8
    IN  t * (LimbBase * LimbBase) + w[2] * LimbBase + w[1]

\* The mathematical 2D dot product x1*x2 + y1*y2.
ExactDot(a1, b1, a2, b2) == WAdd(WMul(a1, a2), WMul(b1, b2))

-----------------------------------------------------------------------------
(* Line 7: int result = x1 * x2 + y1 * y2;                                 *)

\* The int product a * c as the machine leaves it on overflow-free inputs,
\* and as a wrapping build leaves it otherwise.
IntMul(a, c) == Wrap32(WMul(a, c))

\* The int sum p + q, likewise.
IntAdd(p, q) == Wrap32(WAdd(ToWide(p), ToWide(q)))

\* Whether evaluating line 7 overflows int: in either product, or in the
\* sum of the two products.
Overflows(a1, b1, a2, b2) ==
    \/ ~FitsInt(WMul(a1, a2))
    \/ ~FitsInt(WMul(b1, b2))
    \/ ~FitsInt(WAdd(ToWide(IntMul(a1, a2)), ToWide(IntMul(b1, b2))))

\* Mutant of DotResult: result kept in a static and accumulated over calls
\* (here: offset by the number of calls already completed).
DotResultStatic(a1, b1, a2, b2) ==
    IntAdd(IntAdd(IntMul(a1, a2), IntMul(b1, b2)), Len(returned))

\* Mutant of DotResult: the operands paired crosswise, x1*y2 + y1*x2.
DotResultCross(a1, b1, a2, b2) == IntAdd(IntMul(a1, b2), IntMul(b1, a2))

\* Mutant of DotResult: a slip in the second product, x1*x2 + y1*y1.
DotResultSlip(a1, b1, a2, b2) == IntAdd(IntMul(a1, a2), IntMul(b1, b1))

\* The value line 7 stores in result.
DotResult(a1, b1, a2, b2) == IntAdd(IntMul(a1, a2), IntMul(b1, b2))

-----------------------------------------------------------------------------
(* fmt: "{}" replacement fields and decimal formatting of int              *)

DigitChars == <<"0", "1", "2", "3", "4", "5", "6", "7", "8", "9">>

RECURSIVE DigitsOfNonPos(_)
\* The decimal digits of |n| for n <= 0, most significant first (empty for
\* 0).  Worked on the non-positive side so that INT_MIN needs no negation.
DigitsOfNonPos(n) ==
    IF n = 0 THEN <<>>
    ELSE LET r == n % 10
             d == (10 - r) % 10
             q == (n \div 10) + (IF r > 0 THEN 1 ELSE 0)
         IN  Append(DigitsOfNonPos(q), DigitChars[d + 1])

\* fmt's presentation of an int for "{}": a minus sign for negative values,
\* then the decimal digits without leading zeros.
FormatInt(x) ==
    IF x = 0 THEN <<"0">>
    ELSE IF x < 0 THEN <<"-">> \o DigitsOfNonPos(x)
    ELSE DigitsOfNonPos(-x)

RECURSIVE FormatFrom(_, _, _, _)
\* Copies the format string from position i, replacing each "{}" by the
\* next argument.
FormatFrom(f, i, args, k) ==
    IF i > Len(f) THEN <<>>
    ELSE IF f[i] = "{" /\ i < Len(f) /\ f[i + 1] = "}"
         THEN FormatInt(args[k]) \o FormatFrom(f, i + 2, args, k + 1)
         ELSE <<f[i]>> \o FormatFrom(f, i + 1, args, k)

\* fmt::format(f, args...)
Format(f, args) == FormatFrom(f, 1, args, 1)

\* "Computed 2D dot product: {}"
LogFmt == <<"C", "o", "m", "p", "u", "t", "e", "d", " ", "2", "D", " ",
            "d", "o", "t", " ", "p", "r", "o", "d", "u", "c", "t", ":", " ",
            "{", "}">>

\* "({},{})·({},{}) = {}"
RetFmt == <<"(", "{", "}", ",", "{", "}", ")", "0xC2", "0xB7",
            "(", "{", "}", ",", "{", "}", ")", " ", "=", " ", "{", "}">>

\* Line 8: the record spdlog::info hands to the default logger.
LogRecord(r) == [level |-> "info", msg |-> Format(LogFmt, <<r>>)]

\* Mutant of RetString: y1 and x2 handed to fmt::format in the wrong order.
RetStringSwapped(a1, b1, a2, b2, r) == Format(RetFmt, <<a1, a2, b1, b2, r>>)

\* Line 9: the returned string.
RetString(a1, b1, a2, b2, r) == Format(RetFmt, <<a1, b1, a2, b2, r>>)

-----------------------------------------------------------------------------
(* The state machine                                                       *)
(*   pc        "idle" (no call active), "line7", "line8", "line9" (the     *)
(*             line about to run), "aborted" (the process was killed)      *)
(*   x1..y2    the active call's arguments; result its local variable      *)
(*   log       the records the logger has received, oldest first           *)
(*   returned  what callers have received: the arguments and the string    *)
(*             of each completed call, oldest first                        *)

NoFrame == /\ x1 = 0 /\ y1 = 0 /\ x2 = 0 /\ y2 = 0 /\ result = 0

Init ==
    /\ build \in Builds
    /\ pc = "idle"
    /\ NoFrame
    /\ log = <<>>
    /\ returned = <<>>

\* A caller invokes dot2d(a1, b1, a2, b2).
Call(a1, b1, a2, b2) ==
    /\ pc = "idle"
    /\ Len(returned) < MaxCalls
    /\ pc' = "line7"
    /\ x1' = a1 /\ y1' = b1 /\ x2' = a2 /\ y2' = b2
    /\ UNCHANGED <<build, result, log, returned>>

\* Line 7 completes and stores result.
Compute ==
    /\ pc = "line7"
    /\ build = "wrap" \/ ~Overflows(x1, y1, x2, y2)
    /\ result' = DotResult(x1, y1, x2, y2)
    /\ pc' = "line8"
    /\ UNCHANGED <<build, x1, y1, x2, y2, log, returned>>

\* Line 7 overflows in a trapping build: the process is killed.
Trap ==
    /\ pc = "line7"
    /\ build = "trap" /\ Overflows(x1, y1, x2, y2)
    /\ pc' = "aborted"
    /\ UNCHANGED <<build, x1, y1, x2, y2, result, log, returned>>

\* Mutant of Log: the message logged with spdlog::debug.
LogAtDebug ==
    /\ pc = "line8"
    /\ log' = Append(log, [LogRecord(result) EXCEPT !.level = "debug"])
    /\ pc' = "line9"
    /\ UNCHANGED <<build, x1, y1, x2, y2, result, returned>>

\* Line 8.
Log ==
    /\ pc = "line8"
    /\ log' = Append(log, LogRecord(result))
    /\ pc' = "line9"
    /\ UNCHANGED <<build, x1, y1, x2, y2, result, returned>>

\* Line 9: the string goes to the caller and the frame is gone.
Return ==
    /\ pc = "line9"
    /\ returned' = Append(returned,
                          [args |-> <<x1, y1, x2, y2>>,
                           ret  |-> RetString(x1, y1, x2, y2, result)])
    /\ pc' = "idle"
    /\ x1' = 0 /\ y1' = 0 /\ x2' = 0 /\ y2' = 0 /\ result' = 0
    /\ UNCHANGED <<build, log>>

Body == Compute \/ Trap \/ Log \/ Return

Next ==
    \/ \E a \in SeqArgs : Call(a[1], a[2], a[3], a[4])
    \/ Body

\* Sequences of up to MaxCalls calls in one process.
Spec == Init /\ [][Next]_vars

\* One call, with its arguments drawn from IntVals.
InitOne ==
    /\ build \in Builds
    /\ pc = "line7"
    /\ x1 \in IntVals /\ y1 \in IntVals /\ x2 \in IntVals /\ y2 \in IntVals
    /\ result = 0
    /\ log = <<>>
    /\ returned = <<>>

SpecOne == InitOne /\ [][Body]_vars

-----------------------------------------------------------------------------
(* Reading strings back: what a caller or a log reader sees                *)

At(s, i) == IF i \in 1..Len(s) THEN s[i] ELSE ""

IsDigit(c) == \E d \in 1..10 : DigitChars[d] = c

DigitValue(c) == (CHOOSE d \in 1..10 : DigitChars[d] = c) - 1

RECURSIVE NumEnd(_, _)
\* The last position of the run of sign and digit characters that starts
\* at position i (i - 1 when there is none).
NumEnd(s, i) ==
    IF IsDigit(At(s, i)) \/ At(s, i) = "-" THEN NumEnd(s, i + 1) ELSE i - 1

\* A decimal numeral as written for an integer: digits, a minus sign only
\* in front of a non-zero number, no leading zeros.
IsDecimal(t) ==
    LET neg == At(t, 1) = "-"
        d   == IF neg THEN Tail(t) ELSE t
    IN  /\ Len(d) > 0
        /\ \A i \in 1..Len(d) : IsDigit(d[i])
        /\ d[1] = "0" => (Len(d) = 1 /\ ~neg)

RECURSIVE ValueNonPos(_, _)
\* Minus the value of the digit string d, given minus the value acc of the
\* digits already read.
ValueNonPos(d, acc) ==
    IF d = <<>> THEN acc
    ELSE ValueNonPos(Tail(d), acc * 10 - DigitValue(Head(d)))

\* The integer a decimal numeral denotes.
ParseInt(t) ==
    IF At(t, 1) = "-" THEN ValueNonPos(Tail(t), 0)
    ELSE -ValueNonPos(t, 0)

RECURSIVE FirstPos(_, _, _)
\* The first position from i on at which c stands directly in front of a
\* space (Len(s) + 1 when there is none).
FirstPos(s, c, i) ==
    IF i > Len(s) THEN i
    ELSE IF s[i] = c /\ At(s, i + 1) = " " THEN i
    ELSE FirstPos(s, c, i + 1)

\* The text that follows the first occurrence of the two characters c, " ".
After(s, c) == SubSeq(s, FirstPos(s, c, 1) + 2, Len(s))

\* The text in front of the first " = ".
OperandPrefix(s) == SubSeq(s, 1, FirstPos(s, "=", 1) - 2)

\* The result value shown in a returned string: the number after "= ".
ShownResult(s) == ParseInt(After(s, "="))

\* A returned string taken apart along "(a,b)·(c,d) = r".
Fields(s) ==
    LET e1 == NumEnd(s, 2)
        e2 == NumEnd(s, e1 + 2)
        e3 == NumEnd(s, e2 + 5)
        e4 == NumEnd(s, e3 + 2)
        e5 == NumEnd(s, e4 + 5)
    IN  [ok |-> /\ At(s, 1) = "("
                /\ At(s, e1 + 1) = ","
                /\ At(s, e2 + 1) = ")"
                /\ At(s, e2 + 2) = "0xC2"
                /\ At(s, e2 + 3) = "0xB7"
                /\ At(s, e2 + 4) = "("
                /\ At(s, e3 + 1) = ","
                /\ At(s, e4 + 1) = ")"
                /\ At(s, e4 + 2) = " "
                /\ At(s, e4 + 3) = "="
                /\ At(s, e4 + 4) = " "
                /\ e5 = Len(s),
         f  |-> <<SubSeq(s, 2, e1), SubSeq(s, e1 + 2, e2),
                  SubSeq(s, e2 + 5, e3), SubSeq(s, e3 + 2, e4),
                  SubSeq(s, e4 + 5, e5)>>]

Calls == DOMAIN returned

ArgsOverflow(a) == Overflows(a[1], a[2], a[3], a[4])

ArgsExactDot(a) == ExactDot(a[1], a[2], a[3], a[4])

-----------------------------------------------------------------------------
(* Claims                                                                  *)

\* C1: for every four int arguments, the result value shown in the string
\* dot2d returns (the number after "= ") is the mathematical dot product
\* x1*x2 + y1*y2.
C1_ShownResultIsExactDot ==
    \A i \in Calls :
        ToWide(ShownResult(returned[i].ret)) = ArgsExactDot(returned[i].args)

\* C2: the string returned for dot2d(x1, y1, x2, y2) is exactly
\* "(" x1 "," y1 ")·(" x2 "," y2 ") = " result: the four arguments as decimal
\* numerals in argument order, then the value line 7 computed; nothing is
\* swapped, dropped or repeated.
C2_ReturnedStringIsExact ==
    \A i \in Calls :
        LET a == returned[i].args
            p == Fields(returned[i].ret)
        IN  /\ p.ok
            /\ \A k \in 1..5 : IsDecimal(p.f[k])
            /\ \A k \in 1..4 : ParseInt(p.f[k]) = a[k]
            /\ ParseInt(p.f[5]) = DotResult(a[1], a[2], a[3], a[4])

\* dot2d(-32767, 1, 65536, -1) has returned "(-32767,1)·(65536,-1) = -2147418113".
C2_Witness ==
    \E i \in Calls :
        /\ returned[i].args = <<-32767, 1, 65536, -1>>
        /\ returned[i].ret =
               <<"(", "-", "3", "2", "7", "6", "7", ",", "1", ")",
                 "0xC2", "0xB7",
                 "(", "6", "5", "5", "3", "6", ",", "-", "1", ")",
                 " ", "=", " ",
                 "-", "2", "1", "4", "7", "4", "1", "8", "1", "1", "3">>

\* C3: dot2d is stateless and deterministic: two calls with equal arguments
\* return equal strings, whatever calls were made before or in between.
C3_EqualArgsEqualStrings ==
    \A i, j \in Calls :
        returned[i].args = returned[j].args => returned[i].ret = returned[j].ret

\* The same arguments were passed twice with a different call in between,
\* and the repeated call is one whose products overflow.
C3_Witness ==
    \E i, j, k \in Calls :
        /\ i < j /\ j < k
        /\ returned[i].args = returned[k].args
        /\ returned[j].args # returned[i].args
        /\ ArgsOverflow(returned[i].args)

\* C4: for every combination of int arguments a call ends by returning a
\* formatted string: no call ends any other way, and no returned string is
\* empty or malformed.
C4_EveryCallReturnsAString ==
    /\ pc # "aborted"
    /\ \A i \in Calls : Fields(returned[i].ret).ok

\* "Computed 2D dot product: "
LogPrefix == <<"C", "o", "m", "p", "u", "t", "e", "d", " ", "2", "D", " ",
               "d", "o", "t", " ", "p", "r", "o", "d", "u", "c", "t", ":", " ">>

\* C5: every call emits exactly one info-level message
\* "Computed 2D dot product: <result>" before it returns, showing the same
\* result as the returned string; after n calls the log holds n messages,
\* in call order.
C5_OneInfoMessagePerCall ==
    /\ Len(log) = Len(returned) + (IF pc = "line9" THEN 1 ELSE 0)
    /\ \A i \in 1..Len(log) :
           /\ log[i].level = "info"
           /\ SubSeq(log[i].msg, 1, Len(LogPrefix)) = LogPrefix
           /\ IsDecimal(After(log[i].msg, ":"))
    /\ \A i \in Calls :
           After(log[i].msg, ":") = After(returned[i].ret, "=")
    /\ pc = "line9" => ParseInt(After(log[Len(log)].msg, ":")) = result

\* Two calls with different results have returned, and the log holds their
\* two messages.
C5_Witness ==
    /\ pc = "idle"
    /\ Len(returned) = 2
    /\ Len(log) = 2
    /\ ShownResult(returned[1].ret) # ShownResult(returned[2].ret)

InOverflowFreeRange(v) == v \in -32767..32767

\* C6: result is computed in 32-bit int arithmetic.  When all four arguments
\* lie in [-32767, 32767], neither product nor their sum leaves
\* [-2^31, 2^31 - 1], line 7 completes, and result is the exact dot product.
\* For x1 = x2 = 65536, y1 = y2 = 0 the exact dot product does not fit in 32
\* bits and the computed result is not the exact dot product.
C6_ExactWithinRange ==
    pc \in {"line7", "line8", "line9", "aborted"} =>
        /\ (\A v \in {x1, y1, x2, y2} : InOverflowFreeRange(v)) =>
               /\ FitsInt(WMul(x1, x2))
               /\ FitsInt(WMul(y1, y2))
               /\ FitsInt(ExactDot(x1, y1, x2, y2))
               /\ pc # "aborted"
               /\ pc \in {"line8", "line9"} =>
                      ToWide(result) = ExactDot(x1, y1, x2, y2)
        /\ <<x1, y1, x2, y2>> = <<65536, 0, 65536, 0>> =>
               /\ ~FitsInt(ExactDot(x1, y1, x2, y2))
               /\ pc \in {"line8", "line9"} =>
                      ToWide(result) # ExactDot(x1, y1, x2, y2)

\* Line 7 has run on the largest arguments of the range:
\* 32767*32767 + 32767*32767 = 2147352578.
C6_Witness ==
    /\ pc = "line8"
    /\ <<x1, y1, x2, y2>> = <<32767, 32767, 32767, 32767>>
    /\ result = 2147352578

SwapVectors(a) == <<a[3], a[4], a[1], a[2]>>

SwapComponents(a) == <<a[2], a[1], a[4], a[3]>>

\* C7: when line 7 does not overflow, dot2d(x1, y1, x2, y2) shows the same
\* result value as dot2d(x2, y2, x1, y1) and as dot2d(y1, x1, y2, x2) (neither
\* of which overflows), while the operand prefix of the returned string
\* differs from theirs whenever the operands differ.
C7_ResultIsSymmetric ==
    \A i \in Calls :
        LET a == returned[i].args
            s == returned[i].ret
        IN  ~ArgsOverflow(a) =>
                \A b \in {SwapVectors(a), SwapComponents(a)} :
                    LET r == DotResult(b[1], b[2], b[3], b[4])
                    IN  /\ ~ArgsOverflow(b)
                        /\ ShownResult(s) = r
                        /\ a # b => OperandPrefix(s) #
                               OperandPrefix(RetString(b[1], b[2], b[3], b[4], r))

\* dot2d(32767, -1, 1, 65536) has returned, showing 32767 - 65536 = -32769;
\* both rearrangements of its operands differ from it.
C7_Witness ==
    \E i \in Calls :
        /\ returned[i].args = <<32767, -1, 1, 65536>>
        /\ ShownResult(returned[i].ret) = -32769

=============================================================================
